---- MODULE Spec2Model ----
(***************************************************************************)
(* Model of the dice simulator (projects/dice_simulator): the Die          *)
(* dataclass, its validation in __post_init__, roll(), the alternate       *)
(* constructor from_string() and the entry point main().                   *)
(*                                                                         *)
(* Strings are sequences of one-character strings.  Two characters stand   *)
(* for non-ASCII code points: "U+00B2" (SUPERSCRIPT TWO, for which         *)
(* str.isdigit() is True and int() fails) and "U+0663" (ARABIC-INDIC       *)
(* DIGIT THREE, for which str.isdigit() is True and int() yields 3).       *)
(***************************************************************************)
EXTENDS Integers, Sequences, FiniteSets, TLC

VARIABLES dice, last, calls, pc, d, result, out, threads

vars == <<dice, last, calls, pc, d, result, out, threads>>

(***************************************************************************)
(* Bounds of the model.                                                    *)
(***************************************************************************)
MaxLen == 4
MaxDice == 2
MaxSides == 3
NumThreads == 2

(***************************************************************************)
(* Program constants.                                                      *)
(***************************************************************************)
DefaultSides == 6

ERR_SIDES == "Number of sides must be at least 1."
ERR_EMPTY == "Input string cannot be empty."
ERR_FORMAT == "Invalid dice format. Must be like 'D6' or 'D20'."
ERR_INT == "invalid literal for int() with base 10"
ERR_BOUND == "Upper bound must be positive."
NoError == "none"

MSG_ROLLING == "Rolling the die..."
MSG_RESULT == "You rolled a: "
MSG_ERROR == "Error: "

(***************************************************************************)
(* Characters and strings.                                                 *)
(***************************************************************************)
Alphabet == {" ", "d", "D", "x", "-", "0", "1", "2", "U+00B2", "U+0663"}

Strings == UNION {[1..n -> Alphabet] : n \in 0..MaxLen}

SidesInputs == (0 - MaxSides)..MaxSides

SampleStrings ==
    { <<>>, <<" ">>, <<"D", "1">>, <<" ", "d", "2", " ">>, <<"D", "0">>,
      <<"x", "1">>, <<"D">>, <<"D", "U+0663">> }

isspace(c) == c = " "

upper_char(c) == CASE c = "d" -> "D" [] c = "x" -> "X" [] OTHER -> c

isdigit_char(c) == c \in {"0", "1", "2", "U+00B2", "U+0663"}

isdecimal_char(c) == c \in {"0", "1", "2", "U+0663"}

digit_value(c) ==
    CASE c = "0" -> 0 [] c = "1" -> 1 [] c = "2" -> 2 [] c = "U+0663" -> 3
      [] OTHER -> 0

RECURSIVE lstrip(_)
lstrip(s) ==
    IF s = <<>> THEN <<>>
    ELSE IF isspace(Head(s)) THEN lstrip(Tail(s)) ELSE s

RECURSIVE rstrip(_)
rstrip(s) ==
    IF s = <<>> THEN <<>>
    ELSE IF isspace(s[Len(s)]) THEN rstrip(SubSeq(s, 1, Len(s) - 1)) ELSE s

strip_left_only(s) == lstrip(s)

strip(s) == rstrip(lstrip(s))

upper(s) == [i \in 1..Len(s) |-> upper_char(s[i])]

startswith(s, c) == Len(s) >= 1 /\ s[1] = c

slice1(s) == IF Len(s) <= 1 THEN <<>> ELSE SubSeq(s, 2, Len(s))

isdigit(s) == Len(s) >= 1 /\ \A i \in 1..Len(s) : isdigit_char(s[i])

int_parsable(s) == Len(s) >= 1 /\ \A i \in 1..Len(s) : isdecimal_char(s[i])

RECURSIVE int(_)
int(s) ==
    IF s = <<>> THEN 0
    ELSE 10 * int(SubSeq(s, 1, Len(s) - 1)) + digit_value(s[Len(s)])

(***************************************************************************)
(* Die: the by-value constructor with __post_init__, and from_string.      *)
(* The result of a construction is a record: err = NoError and the sides   *)
(* of the new instance, or the message of the ValueError raised.           *)
(***************************************************************************)
Raise(msg) == [err |-> msg, sides |-> 0]

Die_accepts_zero(sides) ==
    IF sides < 0 THEN Raise(ERR_SIDES) ELSE [err |-> NoError, sides |-> sides]

Die(sides) == IF sides < 1 THEN Raise(ERR_SIDES) ELSE [err |-> NoError, sides |-> sides]

from_string_zero_is_format(dice_string) ==
    IF dice_string = <<>> THEN Raise(ERR_EMPTY)
    ELSE LET s == upper(strip(dice_string)) IN
         IF ~startswith(s, "D") \/ ~isdigit(slice1(s)) THEN Raise(ERR_FORMAT)
         ELSE IF ~int_parsable(slice1(s)) THEN Raise(ERR_INT)
         ELSE IF int(slice1(s)) < 1 THEN Raise(ERR_FORMAT)
         ELSE Die(int(slice1(s)))

from_string(dice_string) ==
    IF dice_string = <<>> THEN Raise(ERR_EMPTY)
    ELSE LET s == upper(strip(dice_string)) IN
         IF ~startswith(s, "D") \/ ~isdigit(slice1(s)) THEN Raise(ERR_FORMAT)
         ELSE IF ~int_parsable(slice1(s)) THEN Raise(ERR_INT)
         ELSE Die(int(slice1(s)))

(***************************************************************************)
(* roll: secrets.randbelow(self.sides) + 1.                                *)
(***************************************************************************)
roll_bound_minus_one(sides) == sides - 1

roll_bound_plus_one(sides) == sides + 1

roll_bound(sides) == sides

randbelow(n) == 0..(n - 1)

roll_value_no_offset(r) == r

roll_value(r) == r + 1

(***************************************************************************)
(* State.  dice is the heap of live Die instances (their sides); last is   *)
(* the record of the most recent operation; calls is the list of bounds    *)
(* the most recent roll() passed to the random source.  pc, d, result and  *)
(* out are main()'s position, local die, local result and printed lines.   *)
(***************************************************************************)
NoDie == 0

Op(op, sides_arg, str_arg, ref, err, drawn, value) ==
    [op |-> op, sides_arg |-> sides_arg, str_arg |-> str_arg, ref |-> ref,
     err |-> err, drawn |-> drawn, value |-> value]

Line(head, msg, n) == [head |-> head, msg |-> msg, n |-> n]

MainIdle == pc = "start" /\ d = NoDie /\ result = 0 /\ out = <<>>

Threads == 1..NumThreads

Frame(tpc, n, r, ret, err) == [pc |-> tpc, n |-> n, r |-> r, ret |-> ret, err |-> err]

ThreadsIdle == threads = [t \in Threads |-> Frame("idle", 0, 0, 0, NoError)]

Init ==
    /\ dice = <<>>
    /\ last = Op("none", 0, <<>>, 0, NoError, 0, 0)
    /\ calls = <<>>
    /\ MainIdle
    /\ ThreadsIdle

Store(op, sides_arg, str_arg, r) ==
    IF r.err = NoError
    THEN /\ dice' = Append(dice, r.sides)
         /\ last' = Op(op, sides_arg, str_arg, Len(dice) + 1, NoError, 0, 0)
    ELSE /\ dice' = dice
         /\ last' = Op(op, sides_arg, str_arg, 0, r.err, 0, 0)

Construct(sides) ==
    /\ Len(dice) < MaxDice
    /\ Store("Die", sides, <<>>, Die(sides))
    /\ UNCHANGED <<calls, pc, d, result, out, threads>>

ConstructDefault ==
    /\ Len(dice) < MaxDice
    /\ Store("Die()", DefaultSides, <<>>, Die(DefaultSides))
    /\ UNCHANGED <<calls, pc, d, result, out, threads>>

FromString(dice_string) ==
    /\ Len(dice) < MaxDice
    /\ Store("from_string", 0, dice_string, from_string(dice_string))
    /\ UNCHANGED <<calls, pc, d, result, out, threads>>

Roll(i) ==
    /\ i \in 1..Len(dice)
    /\ LET n == roll_bound(dice[i]) IN
         /\ calls' = <<n>>
         /\ IF n <= 0
            THEN last' = Op("roll", 0, <<>>, i, ERR_BOUND, 0, 0)
            ELSE \E r \in randbelow(n) :
                    last' = Op("roll", 0, <<>>, i, NoError, r, roll_value(r))
    /\ UNCHANGED <<dice, pc, d, result, out, threads>>

SetSides(i, v) ==
    /\ i \in 1..Len(dice)
    /\ dice' = [dice EXCEPT ![i] = v]
    /\ last' = Op("setattr", v, <<>>, i, NoError, 0, 0)
    /\ UNCHANGED <<calls, pc, d, result, out, threads>>

(***************************************************************************)
(* main(): print the banner, then inside try: construct the default die,   *)
(* roll it and print the result; except ValueError: print the message.     *)
(***************************************************************************)
MainStart ==
    /\ pc = "start"
    /\ out' = Append(out, Line(MSG_ROLLING, "", 0))
    /\ pc' = "try"
    /\ UNCHANGED <<dice, last, calls, d, result, threads>>

MainConstruct ==
    /\ pc = "try"
    /\ LET r == Die(DefaultSides) IN
         IF r.err = NoError
         THEN d' = r.sides /\ pc' = "roll" /\ out' = out
         ELSE d' = d /\ pc' = "done" /\ out' = Append(out, Line(MSG_ERROR, r.err, 0))
    /\ UNCHANGED <<dice, last, calls, result, threads>>

MainRoll ==
    /\ pc = "roll"
    /\ LET n == roll_bound(d) IN
         IF n <= 0
         THEN result' = result /\ pc' = "done"
              /\ out' = Append(out, Line(MSG_ERROR, ERR_BOUND, 0))
         ELSE \E r \in randbelow(n) :
                 result' = roll_value(r) /\ pc' = "print" /\ out' = out
    /\ UNCHANGED <<dice, last, calls, d, threads>>

MainPrint ==
    /\ pc = "print"
    /\ out' = Append(out, Line(MSG_RESULT, "", result))
    /\ pc' = "done"
    /\ UNCHANGED <<dice, last, calls, d, result, threads>>

MainNext == MainStart \/ MainConstruct \/ MainRoll \/ MainPrint

(***************************************************************************)
(* Spec: callers holding Die instances construct, parse, roll and assign.  *)
(***************************************************************************)
Next ==
    \/ \E sides \in SidesInputs : Construct(sides)
    \/ ConstructDefault
    \/ \E s \in SampleStrings : FromString(s)
    \/ \E i \in 1..MaxDice : Roll(i)
    \/ \E i \in 1..MaxDice, v \in SidesInputs : SetSides(i, v)

Spec == Init /\ [][Next]_vars

(***************************************************************************)
(* ParseSpec: from_string applied once to every string of at most MaxLen   *)
(* characters over Alphabet.                                               *)
(***************************************************************************)
ParseInit ==
    /\ dice = <<>>
    /\ \E s \in Strings : last = Op("input", 0, s, 0, NoError, 0, 0)
    /\ calls = <<>>
    /\ MainIdle
    /\ ThreadsIdle

Parse == last.op = "input" /\ FromString(last.str_arg)

ParseNext == Parse

ParseSpec == ParseInit /\ [][ParseNext]_vars

(***************************************************************************)
(* LiveSpec: main() runs to completion (each of its statements executes    *)
(* once it is reached) while dice are constructed and rolled elsewhere.    *)
(***************************************************************************)
LiveNext ==
    \/ MainStart
    \/ MainConstruct
    \/ MainRoll
    \/ MainPrint
    \/ \E sides \in SidesInputs : Construct(sides)
    \/ ConstructDefault
    \/ \E i \in 1..MaxDice : Roll(i)

LiveSpec == Init /\ [][LiveNext]_vars /\ WF_vars(MainNext)

(***************************************************************************)
(* ConcSpec: several threads call roll() on one shared Die instance,       *)
(* dice[1], without coordination.  A call is three steps in the calling    *)
(* thread's frame: load self.sides, call secrets.randbelow with it, add 1  *)
(* and return.  The source logs each bound it is called with in calls and  *)
(* last records the most recent draw.                                      *)
(***************************************************************************)
shared_draw(t) == last.drawn

own_draw(t) == threads[t].r

ThreadLoad(t) ==
    /\ threads[t].pc = "idle"
    /\ threads' = [threads EXCEPT ![t] = Frame("loaded", roll_bound(dice[1]), 0, 0, NoError)]
    /\ UNCHANGED <<dice, last, calls, pc, d, result, out>>

ThreadDraw(t) ==
    /\ threads[t].pc = "loaded"
    /\ LET n == threads[t].n IN
         /\ calls' = Append(calls, n)
         /\ IF n <= 0
            THEN /\ threads' = [threads EXCEPT ![t] = Frame("raised", n, 0, 0, ERR_BOUND)]
                 /\ last' = Op("roll", 0, <<>>, 1, ERR_BOUND, 0, 0)
            ELSE \E r \in randbelow(n) :
                    /\ threads' = [threads EXCEPT ![t] = Frame("drawn", n, r, 0, NoError)]
                    /\ last' = Op("roll", 0, <<>>, 1, NoError, r, 0)
    /\ UNCHANGED <<dice, pc, d, result, out>>

ThreadReturn(t) ==
    /\ threads[t].pc = "drawn"
    /\ threads' = [threads EXCEPT ![t] =
                      Frame("done", threads[t].n, threads[t].r, roll_value(own_draw(t)), NoError)]
    /\ UNCHANGED <<dice, last, calls, pc, d, result, out>>

ConcInit ==
    /\ \E sides \in SidesInputs \cup {DefaultSides} :
          Die(sides).err = NoError /\ dice = <<Die(sides).sides>>
    /\ last = Op("none", 0, <<>>, 0, NoError, 0, 0)
    /\ calls = <<>>
    /\ MainIdle
    /\ ThreadsIdle

ConcNext ==
    \/ \E t \in Threads : ThreadLoad(t)
    \/ \E t \in Threads : ThreadDraw(t)
    \/ \E t \in Threads : ThreadReturn(t)

ConcSpec == ConcInit /\ [][ConcNext]_vars

(***************************************************************************)
(* The grammar as the specification states it, over the raw input:         *)
(* spaces, the letter d or D at position a, the digits 0-9 up to position  *)
(* b, spaces.  DecValue is the number the digits at a+1..b denote.         *)
(***************************************************************************)
PlainDigits == <<"0", "1", "2", "3", "4", "5", "6", "7", "8", "9">>

IsPlainDigit(c) == \E k \in 1..Len(PlainDigits) : PlainDigits[k] = c

PlainValue(c) == (CHOOSE k \in 1..Len(PlainDigits) : PlainDigits[k] = c) - 1

DecForm(s, a, b) ==
    /\ 1 <= a /\ a < b /\ b <= Len(s)
    /\ \A i \in 1..(a - 1) : s[i] = " "
    /\ s[a] \in {"d", "D"}
    /\ \A i \in (a + 1)..b : IsPlainDigit(s[i])
    /\ \A i \in (b + 1)..Len(s) : s[i] = " "

RECURSIVE Pow10(_)
Pow10(k) == IF k = 0 THEN 1 ELSE 10 * Pow10(k - 1)

RECURSIVE DecValue(_, _, _)
DecValue(s, a, b) ==
    IF a >= b THEN 0 ELSE PlainValue(s[a + 1]) * Pow10(b - a - 1) + DecValue(s, a + 1, b)

MatchesGrammar(s) == \E a, b \in 1..Len(s) : DecForm(s, a, b)

AllSpaces(s) == \A i \in 1..Len(s) : s[i] = " "

Parsed == last.op = "from_string"

(* C1: Die(sides) raises "Number of sides must be at least 1." and adds no *)
(* instance exactly when sides < 1; for sides >= 1 it adds one instance    *)
(* holding exactly sides; Die() with no argument yields sides = 6.         *)
C1_Construction ==
    [][ /\ last'.op = "Die" =>
             IF last'.sides_arg < 1
             THEN last'.err = ERR_SIDES /\ last'.ref = 0 /\ dice' = dice
             ELSE /\ last'.err = NoError
                  /\ last'.ref = Len(dice) + 1
                  /\ dice' = Append(dice, last'.sides_arg)
        /\ last'.op = "Die()" =>
             /\ last'.err = NoError
             /\ last'.ref = Len(dice) + 1
             /\ dice' = Append(dice, 6) ]_vars

C1_Witness ==
    /\ last.op = "Die" /\ last.sides_arg = 0 /\ last.err = ERR_SIDES
    /\ Len(dice) = 1 /\ dice[1] = 6

(* C2: roll() on an instance with sides >= 1 returns v with                *)
(* 1 <= v <= sides, for every value in 0..sides-1 the source returns.      *)
C2_RollRange ==
    (last.op = "roll" /\ dice[last.ref] >= 1) =>
        /\ last.err = NoError
        /\ last.drawn \in 0..(dice[last.ref] - 1)
        /\ 1 <= last.value /\ last.value <= dice[last.ref]

C2_Witness ==
    last.op = "roll" /\ dice[last.ref] = 3 /\ last.value = 3 /\ last.err = NoError

(* C3: from_string of a string whose trimmed form is empty (the empty      *)
(* string or only whitespace) raises "Input string cannot be empty.".      *)
C3_EmptyTrimmed ==
    (Parsed /\ AllSpaces(last.str_arg)) => last.err = ERR_EMPTY

(* C4: spaces, d or D, the decimal digits of n >= 1 (leading zeros         *)
(* allowed), spaces: from_string yields a Die with sides = n.              *)
C4_ParseValue ==
    Parsed =>
        \A a, b \in 1..Len(last.str_arg) :
            (DecForm(last.str_arg, a, b) /\ DecValue(last.str_arg, a, b) >= 1) =>
                /\ last.err = NoError
                /\ last.ref = Len(dice)
                /\ last.ref >= 1
                /\ dice[last.ref] = DecValue(last.str_arg, a, b)

C4_Witness ==
    /\ Parsed /\ last.str_arg = <<"d", "0", "2", " ">>
    /\ last.err = NoError /\ dice = <<2>>

(* C5: from_string of a string whose trimmed, upper-cased form is          *)
(* non-empty and is not D followed by one or more digits 0-9 raises        *)
(* "Invalid dice format. Must be like 'D6' or 'D20'." and makes no Die.    *)
C5_FormatError ==
    (Parsed /\ ~AllSpaces(last.str_arg) /\ ~MatchesGrammar(last.str_arg)) =>
        last.err = ERR_FORMAT /\ last.ref = 0 /\ dice = <<>>

(* C6: from_string of a string that matches the grammar with a digit       *)
(* suffix denoting 0 raises "Number of sides must be at least 1.", not     *)
(* the format error.                                                       *)
C6_ZeroSides ==
    Parsed =>
        \A a, b \in 1..Len(last.str_arg) :
            (DecForm(last.str_arg, a, b) /\ DecValue(last.str_arg, a, b) = 0) =>
                last.err = ERR_SIDES /\ last.ref = 0 /\ dice = <<>>

C6_Witness ==
    Parsed /\ last.str_arg = <<" ", "d", "0", "0">> /\ last.err = ERR_SIDES

(* C7: roll() on a Die with sides = s calls the random source exactly      *)
(* once, with the bound s, and returns the source's value plus 1.          *)
C7_SourceCall ==
    (last.op = "roll" /\ dice[last.ref] >= 1) =>
        /\ calls = <<dice[last.ref]>>
        /\ last.err = NoError
        /\ last.value = last.drawn + 1

C7_Witness ==
    /\ last.op = "roll" /\ dice[last.ref] = 6 /\ calls = <<6>>
    /\ last.drawn = 4 /\ last.value = 5

(* C8: no operation a caller can perform on a Die (roll, from_string,      *)
(* attribute assignment) changes the sides of an existing instance.        *)
C8_Immutable ==
    [][\A i \in 1..Len(dice) : Len(dice') >= i /\ dice'[i] = dice[i]]_vars

(* C9: every live Die instance has sides >= 1 in every reachable state,    *)
(* and roll() on a live instance never fails.                              *)
C9_SidesPositive ==
    /\ \A i \in 1..Len(dice) : dice[i] >= 1
    /\ last.op = "roll" => last.err = NoError

(* C10: main() terminates; when it has, it printed the banner and then     *)
(* exactly one result line "You rolled a: N" with N in 1..6 from a         *)
(* 6-sided die rolled once; an error line and a result line never occur    *)
(* together.                                                               *)
MainOutcome ==
    /\ pc \in {"start", "try", "roll", "print", "done"}
    /\ Cardinality({i \in 1..Len(out) : out[i].head \in {MSG_RESULT, MSG_ERROR}}) <= 1
    /\ pc = "done" =>
          /\ d = 6
          /\ Len(out) = 2
          /\ out[1] = Line(MSG_ROLLING, "", 0)
          /\ out[2].head = MSG_RESULT
          /\ out[2].n = result
          /\ out[2].n \in 1..6

C10_MainTerminates == []MainOutcome /\ <>(pc = "done")

C10_Witness == pc = "done" /\ out[2].head = MSG_RESULT /\ out[2].n = 6

(* C11: under every interleaving of concurrent roll() calls on one Die,    *)
(* no call fails, each call invokes the source once with the bound sides   *)
(* and returns its own draw plus 1, a value in 1..sides, and no step       *)
(* changes sides.                                                          *)
Drawn(t) == threads[t].pc \in {"drawn", "done"}

ConcOutcome ==
    /\ Len(calls) = Cardinality({t \in Threads : Drawn(t)})
    /\ \A k \in 1..Len(calls) : calls[k] = dice[1]
    /\ \A t \in Threads :
          /\ threads[t].pc # "raised"
          /\ Drawn(t) => threads[t].n = dice[1] /\ threads[t].r \in 0..(dice[1] - 1)
          /\ threads[t].pc = "done" =>
                /\ threads[t].ret = threads[t].r + 1
                /\ 1 <= threads[t].ret /\ threads[t].ret <= dice[1]

C11_ConcurrentRoll == []ConcOutcome /\ [][dice' = dice]_vars

C11_Witness ==
    /\ dice = <<3>>
    /\ threads[1].pc = "done" /\ threads[1].ret = 1
    /\ threads[2].pc = "done" /\ threads[2].ret = 3

====
